---- MODULE Spec2Model ----
(***************************************************************************)
(* A model of script.js of Research-HUB: the graph normalizer              *)
(* (convertToHierarchy), the collapsible mindmap renderer (renderMindmap,   *)
(* collapse, update and the node click handler), the paper list view       *)
(* (loadPapers), the page-load hook, formatSummaries and dark mode.         *)
(*                                                                         *)
(* Five specifications share the module's variables:                       *)
(*   SpecHier     convertToHierarchy applied to every bounded graph;       *)
(*   SpecRender   renderMindmap calls on a payload, and clicks;            *)
(*   SpecPapers   the page-load hook and concurrent loadPapers calls;      *)
(*   SpecSummary  formatSummaries applied to every bounded text;           *)
(*   SpecDark     page loads and clicks on the dark-mode button.           *)
(* Each leaves the variables of the others unchanged.                      *)
(***************************************************************************)
EXTENDS Integers, Sequences, FiniteSets, TLC

\* Bounds of the model.
MaxNodes == 3        \* node ids (and declared nodes) of a graph, SpecHier
MaxEdges == 2        \* edges of a graph, SpecHier
MaxMapNodes == 2     \* node ids of a graph payload of renderMindmap
MaxMapEdges == 2     \* edges of a graph payload of renderMindmap
MaxTreeNodes == 5    \* nodes of a pre-built hierarchy payload
MaxCalls == 3        \* loadPapers calls of a page view
ServerPages == 3     \* total_pages of the server's answers
PapersPerPage == 2   \* papers on a page of the server's answers
MaxRenders == 2      \* calls of renderMindmap on a page
MaxPartLen == 2      \* tokens of a summary inside a summary blob
MaxTextLen == 3      \* tokens of any other text given to formatSummaries
MaxPageLoads == 6    \* page loads of a browser profile
MaxToggles == 4      \* clicks on the dark-mode button during a page view

VARIABLES
  graph,        \* the {nodes, edges} argument of convertToHierarchy
  hierarchy,    \* what the call produced: status "none" before the call
  mindmapJson,  \* the argument of renderMindmap
  hasContainer, \* whether the page has the element #mindmapContainer
  i,            \* the free variable i of update's key function
  outcome,      \* how the renderMindmap call ended: "none" before the call
  console,      \* the messages written by console.error
  svg,          \* how many <svg> diagrams the container holds
  renders,      \* how many calls of renderMindmap were made
  firstRender,  \* the hierarchy and the drawn nodes as the first call left them
  root,         \* the d3.hierarchy of the call: path |-> render node
  gNodes,       \* the g.node elements of the diagram: the datum of each
  gLinks,       \* the path.link elements of the diagram: each datum's target
  dom,          \* the ids of the elements the page has
  searchValue,  \* the value of #searchInput
  sortValue,    \* the value of #sortSelect
  loaded,       \* whether DOMContentLoaded has fired
  initError,    \* the error the first DOMContentLoaded handler threw
  listeners,    \* the listeners that handler attached: "input", "change"
  detail,       \* that handler's paper-detail check: unchecked/skipped/called
  calls,        \* the loadPapers calls: page and position of each
  grid,         \* #papersGrid: its cards and the call that painted them
  pager,        \* #pagination: its buttons and the call that built them
  lastArrived,  \* the call whose response arrived last (0: none yet)
  text,         \* the text argument of formatSummaries
  type,         \* the type argument of formatSummaries
  summary,      \* what the call returned
  localStorage, \* the origin's localStorage: key |-> string
  toggleBtn,    \* whether the page has the element #darkModeToggle
  darkLoaded,   \* whether the dark-mode DOMContentLoaded handler has run
  bodyClasses,  \* document.body.classList
  toggleText,   \* the textContent of #darkModeToggle
  pageLoads,    \* how many pages the profile has loaded
  toggles,      \* how many clicks the button got on this page
  lastToggle    \* whether any click was made yet, and the mode it left

hierVars == <<graph, hierarchy>>
renderVars ==
  <<mindmapJson, hasContainer, i, outcome, console, svg, renders, firstRender,
    root,
    gNodes, gLinks>>
paperVars ==
  <<dom, searchValue, sortValue, loaded, initError, listeners, detail, calls,
    grid, pager, lastArrived>>
summaryVars == <<text, type, summary>>
darkVars ==
  <<localStorage, toggleBtn, darkLoaded, bodyClasses, toggleText, pageLoads,
    toggles, lastToggle>>
vars == <<hierVars, renderVars, paperVars, summaryVars, darkVars>>

(***************************************************************************)
(* Graphs.  A node is {id, label}; an edge is {from, to}.  Node ids are    *)
(* identifiers: the declared nodes of a graph have pairwise distinct ids.  *)
(* An edge endpoint is any id of the universe, declared or not.            *)
(***************************************************************************)
Ids == 1 .. MaxNodes

Labels == <<"A", "B", "C", "D", "E", "F">>

LabelOf(k) == IF k \in DOMAIN Labels THEN Labels[k] ELSE "Z"

Node(k) == [id |-> k, label |-> LabelOf(k)]

Edge(f, t) == [from |-> f, to |-> t]

Injective(s) == \A a, b \in DOMAIN s : s[a] = s[b] => a = b

\* The graphs with at most maxN declared nodes and maxE edges over the ids.
GraphsOver(ids, maxN, maxE) ==
  LET idLists == {t \in UNION {[1 .. n -> ids] : n \in 0 .. maxN} : Injective(t)}
      nodeLists == {[j \in DOMAIN t |-> Node(t[j])] : t \in idLists}
      edges == {Edge(f, t) : f \in ids, t \in ids}
      edgeLists == UNION {[1 .. n -> edges] : n \in 0 .. maxE}
  IN  {[nodes |-> ns, edges |-> es] : ns \in nodeLists, es \in edgeLists}

Graphs == GraphsOver(Ids, MaxNodes, MaxEdges)

(***************************************************************************)
(* convertToHierarchy.  A tree node is an object {name, children}; the     *)
(* model keeps the objects in a heap keyed like nodesById, and a children  *)
(* list holds references (keys).                                           *)
(***************************************************************************)
Max(S) == CHOOSE x \in S : \A y \in S : y <= x

Min(S) == CHOOSE x \in S : \A y \in S : x <= y

\* graph.nodes.forEach(n => nodesById[n.id] = {name: n.label, children: []}):
\* a later node with the same id overwrites an earlier one.
NewNodesById(nodes) ==
  [k \in {nodes[j].id : j \in DOMAIN nodes} |->
     [name |-> nodes[Max({j \in DOMAIN nodes : nodes[j].id = k})].label,
      children |-> <<>>]]

\* if (nodesById[e.from] && nodesById[e.to])
BothEndpointsExist(nodesById, e) ==
  e.from \in DOMAIN nodesById /\ e.to \in DOMAIN nodesById

\* A variant of PushChild that puts the child in front (unshift for push).
PushChildFront(nodesById, e) ==
  [nodesById EXCEPT ![e.from].children = <<e.to>> \o @]

\* nodesById[e.from].children.push(nodesById[e.to])
PushChild(nodesById, e) ==
  [nodesById EXCEPT ![e.from].children = Append(@, e.to)]

\* graph.edges.forEach(...), from edge j on.
RECURSIVE LinkEdges(_, _, _)
LinkEdges(nodesById, edges, j) ==
  IF j > Len(edges) THEN nodesById
  ELSE LinkEdges(IF BothEndpointsExist(nodesById, edges[j])
                 THEN PushChild(nodesById, edges[j])
                 ELSE nodesById,
                 edges, j + 1)

\* new Set(graph.edges.map(e => e.to))
Targets(edges) == {edges[j].to : j \in DOMAIN edges}

\* A variant of RootIndex that takes the last node without an incoming edge.
RootIndexLast(nodes, targets) ==
  LET free == {j \in DOMAIN nodes : nodes[j].id \notin targets}
  IN  IF free # {} THEN Max(free)
      ELSE IF Len(nodes) > 0 THEN 1 ELSE 0

\* graph.nodes.find(n => !targets.has(n.id)) || graph.nodes[0], as an index
\* into graph.nodes; 0 stands for undefined.
RootIndex(nodes, targets) ==
  LET free == {j \in DOMAIN nodes : nodes[j].id \notin targets}
  IN  IF free # {} THEN Min(free)
      ELSE IF Len(nodes) > 0 THEN 1 ELSE 0

NoHierarchy == [status |-> "none", root |-> 0, objs |-> <<>>]

\* The call's outcome: the returned tree node (root, a key of objs) with the
\* heap it lives in, or the TypeError of rootNode.id on an undefined rootNode.
convertToHierarchy(g) ==
  LET nodesById == LinkEdges(NewNodesById(g.nodes), g.edges, 1)
      r == RootIndex(g.nodes, Targets(g.edges))
  IN  IF r = 0
      THEN [status |-> "TypeError", root |-> 0, objs |-> <<>>]
      ELSE [status |-> "ok", root |-> g.nodes[r].id, objs |-> nodesById]

\* The objects the children lists of the objects of S refer to.
ChildrenOfSet(objs, S) ==
  UNION {{objs[p].children[m] : m \in DOMAIN objs[p].children} : p \in S}

\* S with everything reachable from it through children lists.
RECURSIVE Closure(_, _)
Closure(objs, S) ==
  LET T == S \cup ChildrenOfSet(objs, S)
  IN  IF T = S THEN S ELSE Closure(objs, T)

\* The proper descendants of k.
Descendants(objs, k) == Closure(objs, ChildrenOfSet(objs, {k}))

(***************************************************************************)
(* The variables of a specification that does not use them.                *)
(***************************************************************************)
EmptyGraph == [nodes |-> <<>>, edges |-> <<>>]

\* Before the first call of renderMindmap.
NoRender == [root |-> <<>>, gNodes |-> <<>>]

NoPayload ==
  [kind |-> "undefined", shape |-> "none", graph |-> EmptyGraph,
   tree |-> NoHierarchy]

HierIdle ==
  /\ graph = EmptyGraph
  /\ hierarchy = NoHierarchy

RenderIdle ==
  /\ mindmapJson = NoPayload
  /\ hasContainer = FALSE
  /\ i = [declared |-> FALSE, value |-> 0]
  /\ outcome = "none"
  /\ console = <<>>
  /\ svg = 0
  /\ renders = 0
  /\ firstRender = NoRender
  /\ root = <<>>
  /\ gNodes = <<>>
  /\ gLinks = <<>>

(***************************************************************************)
(* The paper list view and the page-load hook.                             *)
(*                                                                         *)
(* The collaborator API answers GET /papers?page=p with                    *)
(* {papers, total_pages, page}.  A title is a sequence of characters; a    *)
(* published date is a number (its time value).  A card is modelled by the *)
(* id of its paper.                                                        *)
(***************************************************************************)
\* String.prototype.toLowerCase, per character.
LowerChar(ch) == CASE ch = "A" -> "a" [] ch = "B" -> "b" [] OTHER -> ch

toLowerCase(s) == [j \in DOMAIN s |-> LowerChar(s[j])]

\* String.prototype.includes
includes(s, t) ==
  \E k \in 0 .. Len(s) - Len(t) : SubSeq(s, k + 1, k + Len(t)) = t

\* The letter of a character, ignoring case, as a rank.
Letter(ch) == IF LowerChar(ch) = "a" THEN 1 ELSE 2

\* a.localeCompare(b) < 0: letters first, ignoring case; between strings of
\* the same letters, lower case before upper case at the first difference.
RECURSIVE LettersLess(_, _)
LettersLess(a, b) ==
  IF a = <<>> THEN b # <<>>
  ELSE IF b = <<>> THEN FALSE
  ELSE IF Letter(Head(a)) # Letter(Head(b)) THEN Letter(Head(a)) < Letter(Head(b))
  ELSE LettersLess(Tail(a), Tail(b))

RECURSIVE CaseLess(_, _)
CaseLess(a, b) ==
  IF a = <<>> \/ b = <<>> THEN FALSE
  ELSE IF Head(a) # Head(b) THEN Head(a) = LowerChar(Head(a))
  ELSE CaseLess(Tail(a), Tail(b))

localeCompareLess(a, b) ==
  \/ LettersLess(a, b)
  \/ ~LettersLess(b, a) /\ CaseLess(a, b)

\* The comparator of papers.sort is negative: a goes before b.
Before(by, a, b) ==
  IF by = "title" THEN localeCompareLess(a.title, b.title)
  ELSE b.published_date - a.published_date < 0

\* Array.prototype.sort (stable): x is put before the first element that the
\* comparator orders after it.
RECURSIVE InsertSorted(_, _, _)
InsertSorted(by, sorted, x) ==
  IF sorted = <<>> THEN <<x>>
  ELSE IF Before(by, x, Head(sorted)) THEN <<x>> \o sorted
  ELSE <<Head(sorted)>> \o InsertSorted(by, Tail(sorted), x)

RECURSIVE SortFrom(_, _, _, _)
SortFrom(by, papers, j, sorted) ==
  IF j > Len(papers) THEN sorted
  ELSE SortFrom(by, papers, j + 1, InsertSorted(by, sorted, papers[j]))

sort(by, papers) == SortFrom(by, papers, 1, <<>>)

RECURSIVE filter(_, _)

\* The filter without toLowerCase() on the title.
filterCaseSensitive(papers, searchTerm) ==
  IF papers = <<>> THEN <<>>
  ELSE (IF includes(Head(papers).title, searchTerm)
        THEN <<Head(papers)>> ELSE <<>>) \o filter(Tail(papers), searchTerm)

\* papers.filter(p => p.title.toLowerCase().includes(searchTerm))
filter(papers, searchTerm) ==
  IF papers = <<>> THEN <<>>
  ELSE (IF includes(toLowerCase(Head(papers).title), searchTerm)
        THEN <<Head(papers)>> ELSE <<>>) \o filter(Tail(papers), searchTerm)

\* The server's data: PapersPerPage papers on each of ServerPages pages.
Titles == << <<"b", "a">>, <<"A", "b">>, <<"a">>, <<"B">>, <<"a", "B">> >>

Paper(k) ==
  [id |-> k,
   title |-> Titles[(k % Len(Titles)) + 1],
   published_date |-> (k * k + 1) % 5]

Response(page) ==
  [papers |-> [j \in 1 .. PapersPerPage |-> Paper((page - 1) * PapersPerPage + j)],
   total_pages |-> ServerPages,
   page |-> page]

\* What the user can type into the search box.
SearchValues == {<<>>, <<"a">>, <<"B">>}

SortValues == {"date", "title"}

ElementIds ==
  {"papersGrid", "searchInput", "sortSelect", "pagination", "paperTitle"}

NoGrid == [from |-> 0, cards |-> <<>>]

NoPager == [from |-> 0, buttons |-> 0, disabled |-> 0]

PapersIdle ==
  /\ dom = {}
  /\ searchValue = <<>>
  /\ sortValue = "date"
  /\ loaded = FALSE
  /\ initError = "none"
  /\ listeners = {}
  /\ detail = "unchecked"
  /\ calls = <<>>
  /\ grid = NoGrid
  /\ pager = NoPager
  /\ lastArrived = 0

(***************************************************************************)
(* The mindmap renderer.                                                   *)
(*                                                                         *)
(* A payload is absent (null, undefined, ""), a string that is not JSON,   *)
(* or an object or its JSON text; the object is a graph {nodes, edges} or  *)
(* a pre-built hierarchy {name, children}.  JSON.parse of the text of an   *)
(* object yields that object.                                              *)
(***************************************************************************)
MapIds == 1 .. MaxMapNodes

MapGraphs == GraphsOver(MapIds, MaxMapNodes, MaxMapEdges)

\* The children of k under a parent vector, by increasing index.
RECURSIVE KidsFrom(_, _, _, _)
KidsFrom(parent, n, k, j) ==
  IF j > n THEN <<>>
  ELSE (IF parent[j] = k THEN <<j>> ELSE <<>>) \o KidsFrom(parent, n, k, j + 1)

\* The hierarchies of n nodes: node 1 is the root, the parent of node j > 1
\* is a node before it.
TreesOf(n) ==
  {[status |-> "ok", root |-> 1,
    objs |-> [k \in 1 .. n |->
                [name |-> LabelOf(k), children |-> KidsFrom(parent, n, k, 2)]]] :
     parent \in {q \in [2 .. n -> 1 .. n] : \A j \in 2 .. n : q[j] < j}}

Trees == UNION {TreesOf(n) : n \in 1 .. MaxTreeNodes}

Payloads ==
  {[kind |-> k, shape |-> "none", graph |-> EmptyGraph, tree |-> NoHierarchy] :
     k \in {"null", "undefined", "emptyString", "invalidJSON"}}
  \cup {[kind |-> k, shape |-> "graph", graph |-> g, tree |-> NoHierarchy] :
          k \in {"object", "jsonString"}, g \in MapGraphs}
  \cup {[kind |-> k, shape |-> "hierarchy", graph |-> EmptyGraph, tree |-> t] :
          k \in {"object", "jsonString"}, t \in Trees}

\* A child-list slot of a render node: null/undefined (both falsy, and the
\* code only tests truthiness) or an array of render nodes.
Null == [has |-> FALSE, items |-> <<>>]

Arr(s) == [has |-> TRUE, items |-> s]

\* A render node is named by its path from the root: the child indexes.
RootPath == <<>>

\* The data object a path leads to.
RECURSIVE ObjAt(_, _, _)
ObjAt(objs, k, path) ==
  IF path = <<>> THEN k
  ELSE ObjAt(objs, objs[k].children[Head(path)], Tail(path))

\* The render nodes below the nodes of level, level by level.
RECURSIVE PathsBelow(_, _)
PathsBelow(h, level) ==
  LET next == UNION {{Append(p, m) :
                        m \in DOMAIN h.objs[ObjAt(h.objs, h.root, p)].children} :
                     p \in level}
  IN  IF next = {} THEN level ELSE level \cup PathsBelow(h, next)

\* Whether a data object reachable from the root is its own descendant:
\* d3.hierarchy then creates render nodes without end.
Cyclic(h) ==
  \E k \in Closure(h.objs, {h.root}) : k \in Descendants(h.objs, k)

\* d3.hierarchy(data): one render node per occurrence of a data object, with
\* a children array only where the data has a non-empty one.
d3hierarchy(h) ==
  [p \in PathsBelow(h, {RootPath}) |->
     LET kids == h.objs[ObjAt(h.objs, h.root, p)].children
     IN  [data |-> ObjAt(h.objs, h.root, p),
          children |-> IF Len(kids) > 0
                       THEN Arr([m \in DOMAIN kids |-> Append(p, m)])
                       ELSE Null,
          _children |-> Null,
          id |-> 0]]

RECURSIVE collapse(_, _)
RECURSIVE CollapseEach(_, _, _)

\* function collapse(d) without its last statement, d.children = null.
collapseKeepsChildren(t, d) ==
  IF t[d].children.has
  THEN LET t1 == [t EXCEPT ![d]._children = t[d].children]
       IN  CollapseEach(t1, t1[d]._children.items, 1)
  ELSE t

\* function collapse(d)
collapse(t, d) ==
  IF t[d].children.has
  THEN LET t1 == [t EXCEPT ![d]._children = t[d].children]
           t2 == CollapseEach(t1, t1[d]._children.items, 1)
       IN  [t2 EXCEPT ![d].children = Null]
  ELSE t

\* ds.forEach(collapse), from element j on.
CollapseEach(t, ds, j) ==
  IF j > Len(ds) THEN t ELSE CollapseEach(collapse(t, ds[j]), ds, j + 1)

\* root.descendants(): the nodes reached through the children slots, breadth
\* first.
RECURSIVE BreadthFirst(_, _, _)
BreadthFirst(t, queue, out) ==
  IF queue = <<>> THEN out
  ELSE LET d == Head(queue)
       IN  BreadthFirst(t,
                        Tail(queue) \o t[d].children.items,
                        Append(out, d))

descendants(t) == BreadthFirst(t, <<RootPath>>, <<>>)

\* root.links(): one {source: parent, target: node} per node but the root;
\* the model keeps the target, whose parent is its path without the last step.
links(t) == Tail(descendants(t))

(***************************************************************************)
(* selection.data(data, key) of d3: the key of every element of the group  *)
(* and of every datum is computed; an element with a key already seen in   *)
(* the group goes to exit; a datum whose key belongs to an element not yet *)
(* bound is bound to it (update), any other datum enters; the elements     *)
(* left unbound go to exit.  A key 0 stands for the string "undefined".    *)
(***************************************************************************)
FirstWith(keys, k) == Min({j \in DOMAIN keys : keys[j] = k})

\* The indexes of the data bound to an element of the group.
JoinUpdate(groupKeys, dataKeys) ==
  {j \in DOMAIN dataKeys :
     /\ \E a \in DOMAIN groupKeys : groupKeys[a] = dataKeys[j]
     /\ FirstWith(dataKeys, dataKeys[j]) = j}

\* The indexes of the elements of the group that keep a datum.
JoinKept(groupKeys, dataKeys) ==
  {a \in DOMAIN groupKeys :
     /\ FirstWith(groupKeys, groupKeys[a]) = a
     /\ \E j \in DOMAIN dataKeys : dataKeys[j] = groupKeys[a]}

\* The sequence s restricted to the indexes of S, in order.
RECURSIVE Pick(_, _, _)
Pick(s, S, j) ==
  IF j > Len(s) THEN <<>>
  ELSE (IF j \in S THEN <<s[j]>> ELSE <<>>) \o Pick(s, S, j + 1)

\* The elements after the join: element a of the group, when kept, with the
\* datum it is now bound to.
Rebound(group, groupKeys, data, dataKeys) ==
  [a \in DOMAIN group |->
     IF a \in JoinKept(groupKeys, dataKeys)
     THEN data[FirstWith(dataKeys, groupKeys[a])]
     ELSE group[a]]

Keys(t, ds) == [j \in DOMAIN ds |-> t[ds[j]].id]

\* The key function of the node join, d => d.id || (d.id = ++i), over the
\* data from datum j on: the tree and the counter after it.
RECURSIVE AssignIds(_, _, _, _)
AssignIds(t, n, ds, j) ==
  IF j > Len(ds) THEN [tree |-> t, i |-> n]
  ELSE IF t[ds[j]].id # 0 THEN AssignIds(t, n, ds, j + 1)
  ELSE AssignIds([t EXCEPT ![ds[j]].id = n + 1], n + 1, ds, j + 1)

\* update(source) on tree t with the drawn elements ns, ls and the counter c.
\* The link join appends a path for every entering link and removes none;
\* the node join throws a ReferenceError at ++i when i is not declared and a
\* visible node has no id yet, else appends a g.node for every entering node
\* and removes the exiting ones.  Entering elements are put at the end.
update(t, ns, ls, c) ==
  LET nodes == descendants(t)
      lks == links(t)
      lKeys == Keys(t, ls)
      dKeys == Keys(t, lks)
      ls2 == Rebound(ls, lKeys, lks, dKeys)
             \o Pick(lks, DOMAIN lks \ JoinUpdate(lKeys, dKeys), 1)
      needsId == \E j \in DOMAIN nodes : t[nodes[j]].id = 0
  IN  IF needsId /\ ~c.declared
      THEN [threw |-> TRUE, root |-> t, gNodes |-> ns, gLinks |-> ls2, i |-> c]
      ELSE LET a == AssignIds(t, c.value, nodes, 1)
               t2 == a.tree
               nKeys == Keys(t2, ns)
               eKeys == Keys(t2, nodes)
               kept == JoinKept(nKeys, eKeys)
               ns2 == Pick(Rebound(ns, nKeys, nodes, eKeys), kept, 1)
                      \o Pick(nodes, DOMAIN nodes \ JoinUpdate(nKeys, eKeys), 1)
           IN  [threw |-> FALSE, root |-> t2, gNodes |-> ns2, gLinks |-> ls2,
                i |-> [c EXCEPT !.value = a.i]]

\* The click handler with d.children = null left out of its first branch.
toggleKeepsChildren(t, d) ==
  IF t[d].children.has /\ ~t[d]._children.has
  THEN [t EXCEPT ![d]._children = t[d].children]
  ELSE [t EXCEPT ![d].children = t[d]._children, ![d]._children = Null]

\* The click handler collapsing the children it has just restored.
toggleShallow(t, d) ==
  IF t[d].children.has
  THEN [t EXCEPT ![d]._children = t[d].children, ![d].children = Null]
  ELSE LET t1 == [t EXCEPT ![d].children = t[d]._children, ![d]._children = Null]
       IN  CollapseEach(t1, t1[d].children.items, 1)

\* The click handler of a g.node element, before its call of update.
toggle(t, d) ==
  IF t[d].children.has
  THEN [t EXCEPT ![d]._children = t[d].children, ![d].children = Null]
  ELSE [t EXCEPT ![d].children = t[d]._children, ![d]._children = Null]

(***************************************************************************)
(* Summaries.                                                              *)
(*                                                                         *)
(* A text is a sequence of tokens: the phrases the regular expressions of  *)
(* formatSummaries look for, a whitespace character, a colon, and words.   *)
(* null and undefined are Null, a string s is Arr(s).                      *)
(***************************************************************************)
Preamble == "Here are the summaries based on the provided abstract:"

ShortLabel == "Short Summary"

LongLabel == "Long Summary"

Bold == "<strong>Short Summary:</strong>"

Words == {"foo.", "bar."}

Tokens == {Preamble, ShortLabel, LongLabel, ":", " ", "foo."}

SeqsUpTo(S, n) == UNION {[1 .. m -> S] : m \in 0 .. n}

\* The summaries S and L of a blob: words and whitespace, with a word.
Parts == {p \in SeqsUpTo(Words \cup {" "}, MaxPartLen) :
            \E j \in DOMAIN p : p[j] \in Words}

\* 'Here are the summaries based on the provided abstract: Short Summary: S
\* Long Summary: L'
Blob(S, L) ==
  <<Preamble, " ", ShortLabel, ":", " ">> \o S \o <<" ", LongLabel, ":", " ">> \o L

Texts ==
  {Null} \cup {Arr(t) : t \in SeqsUpTo(Tokens, MaxTextLen)}
         \cup {Arr(Blob(S, L)) : S, L \in Parts}

Types == {"undefined", "short", "long", "full"}

NotFormatted == [done |-> FALSE, value |-> <<>>]

\* How many whitespace tokens t has from position k on (the greedy \s*).
RECURSIVE SpacesFrom(_, _)
SpacesFrom(t, k) ==
  IF k \in DOMAIN t /\ t[k] = " " THEN 1 + SpacesFrom(t, k + 1) ELSE 0

\* How many whitespace tokens t ends with.
RECURSIVE SpacesAtEnd(_)
SpacesAtEnd(t) ==
  IF t # <<>> /\ t[Len(t)] = " " THEN 1 + SpacesAtEnd(SubSeq(t, 1, Len(t) - 1))
  ELSE 0

\* String.prototype.trim
trim(t) == SubSeq(t, 1 + SpacesFrom(t, 1), Len(t) - SpacesAtEnd(t))

\* text.replace(/^Here are the summaries based on the provided abstract:\s*/i, "")
StripPreamble(t) ==
  IF t # <<>> /\ t[1] = Preamble
  THEN SubSeq(t, 2 + SpacesFrom(t, 2), Len(t))
  ELSE t

\* Where a match of <label>\s*(.+ begins: the leftmost label that has a
\* token after it (0: no match).
LabelAt(t, label) ==
  LET at == {a \in DOMAIN t : t[a] = label /\ a < Len(t)}
  IN  IF at = {} THEN 0 ELSE Min(at)

\* Where the group begins: after the whitespace \s* takes, which gives one
\* token back when it has taken all the rest of the text.
GroupStart(t, a) ==
  LET k == SpacesFrom(t, a + 1)
  IN  IF a + k < Len(t) THEN a + 1 + k ELSE a + k

\* text.match(/Short Summary\s*(.+?)(?=Long Summary|$)/is): group 1, or Null.
shortMatch(t) ==
  LET a == LabelAt(t, ShortLabel)
      b == GroupStart(t, a)
      e == Min({m \in b .. Len(t) : m = Len(t) \/ t[m + 1] = LongLabel})
  IN  IF a = 0 THEN Null ELSE Arr(SubSeq(t, b, e))

\* text.match(/Long Summary\s*(.+)$/is): group 1, or Null.
longMatch(t) ==
  LET a == LabelAt(t, LongLabel)
  IN  IF a = 0 THEN Null ELSE Arr(SubSeq(t, GroupStart(t, a), Len(t)))

\* formatSummaries(text, type = "short")
formatSummaries(txt, ty) ==
  IF ~txt.has \/ txt.items = <<>> THEN <<>>
  ELSE LET t == StripPreamble(txt.items)
           kind == IF ty = "undefined" THEN "short" ELSE ty
       IN  IF kind = "short" /\ shortMatch(t).has
           THEN <<Bold, " ">> \o trim(shortMatch(t).items)
           ELSE IF kind = "long" /\ longMatch(t).has
           THEN <<" ">> \o trim(longMatch(t).items)
           ELSE trim(t)

SummaryIdle ==
  /\ text = Null
  /\ type = "undefined"
  /\ summary = NotFormatted

(***************************************************************************)
(* Dark mode.                                                              *)
(***************************************************************************)
NoItems == [k \in {} |-> ""]

\* localStorage.getItem(key): null (has is FALSE) or the stored string.
getItem(store, key) ==
  IF key \in DOMAIN store THEN [has |-> TRUE, value |-> store[key]]
  ELSE [has |-> FALSE, value |-> ""]

\* String(value) of a boolean, as setItem stores it.
String(b) == IF b THEN "true" ELSE "false"

\* localStorage.setItem(key, value)
setItem(store, key, value) ==
  [k \in DOMAIN store \cup {key} |-> IF k = key THEN String(value) ELSE store[k]]

\* classList.toggle(c)
classToggle(classes, c) ==
  IF c \in classes THEN classes \ {c} ELSE classes \cup {c}

NeverToggled == [made |-> FALSE, dark |-> FALSE]

DarkIdle ==
  /\ localStorage = NoItems
  /\ toggleBtn = FALSE
  /\ darkLoaded = FALSE
  /\ bodyClasses = {}
  /\ toggleText = "html"
  /\ pageLoads = 0
  /\ toggles = 0
  /\ lastToggle = NeverToggled

(***************************************************************************)
(* SpecRender: calls of renderMindmap with one payload, and clicks on      *)
(* the drawn nodes.  The script never declares the i its key function      *)
(* increments: the page either declares a global i (a counter, 0 here) or  *)
(* it does not, and ++i then throws a ReferenceError.  Layout coordinates, *)
(* element attributes and the zoom transform are not modelled.             *)
(***************************************************************************)
InitRender ==
  /\ HierIdle
  /\ PapersIdle
  /\ SummaryIdle
  /\ DarkIdle
  /\ mindmapJson \in Payloads
  /\ hasContainer \in BOOLEAN
  /\ i \in {[declared |-> b, value |-> 0] : b \in BOOLEAN}
  /\ outcome = "none"
  /\ console = <<>>
  /\ svg = 0
  /\ renders = 0
  /\ firstRender = NoRender
  /\ root = <<>>
  /\ gNodes = <<>>
  /\ gLinks = <<>>

\* if (!mindmapJson) return;
Absent(m) == m.kind \in {"null", "undefined", "emptyString"}

\* root.children?.forEach(collapse)
CollapseBelowRoot(t) == CollapseEach(t, t[RootPath].children.items, 1)

\* container.innerHTML = "": the number of diagrams left in the container.
ClearContainer(n) == 0

\* The body of renderMindmap(mindmapJson).  outcome: "returned" (a normal
\* return that drew nothing), "rendered", "TypeError" or "ReferenceError"
\* (thrown to the caller), "diverges" (d3.hierarchy on cyclic data never
\* returns).
renderMindmap ==
  /\ UNCHANGED <<hierVars, paperVars, summaryVars, darkVars, mindmapJson,
                 hasContainer>>
  /\ renders' = renders + 1
  /\ IF Absent(mindmapJson)
     THEN /\ outcome' = "returned"
          /\ UNCHANGED <<i, console, svg, root, gNodes, gLinks>>
     ELSE IF mindmapJson.kind = "invalidJSON"
     THEN /\ outcome' = "returned"
          /\ console' = Append(console, "Invalid mindmap JSON")
          /\ UNCHANGED <<i, svg, root, gNodes, gLinks>>
     ELSE LET data == IF mindmapJson.shape = "graph"
                      THEN convertToHierarchy(mindmapJson.graph)
                      ELSE mindmapJson.tree
          IN  IF data.status = "TypeError"
              THEN /\ outcome' = "TypeError"
                   /\ UNCHANGED <<i, console, svg, root, gNodes, gLinks>>
              ELSE IF ~hasContainer
              THEN /\ outcome' = "returned"
                   /\ UNCHANGED <<i, console, svg, root, gNodes, gLinks>>
              ELSE IF Cyclic(data)
              THEN /\ outcome' = "diverges"
                   /\ svg' = ClearContainer(svg) + 1
                   /\ gNodes' = <<>>
                   /\ gLinks' = <<>>
                   /\ UNCHANGED <<i, console, root>>
              ELSE LET u == update(CollapseBelowRoot(d3hierarchy(data)),
                                   <<>>, <<>>, i)
                   IN  /\ outcome' = IF u.threw THEN "ReferenceError"
                                     ELSE "rendered"
                       /\ svg' = ClearContainer(svg) + 1
                       /\ root' = u.root
                       /\ gNodes' = u.gNodes
                       /\ gLinks' = u.gLinks
                       /\ i' = u.i
                       /\ UNCHANGED console

\* The first call of renderMindmap on the page.
RenderMindmap ==
  /\ outcome = "none"
  /\ renderMindmap
  /\ firstRender' = [root |-> root', gNodes |-> gNodes']

\* A later call of renderMindmap with the same, unchanged payload (a call
\* that diverged never returned, so no call follows it).
RenderAgain ==
  /\ outcome \notin {"none", "diverges"}
  /\ renders < MaxRenders
  /\ renderMindmap
  /\ UNCHANGED firstRender

\* A click on the k-th drawn node: the handler toggles its datum d and calls
\* update(d).
Click(k) ==
  /\ outcome = "rendered"
  /\ k \in DOMAIN gNodes
  /\ LET u == update(toggle(root, gNodes[k]), gNodes, gLinks, i)
     IN  /\ root' = u.root
         /\ gNodes' = u.gNodes
         /\ gLinks' = u.gLinks
         /\ i' = u.i
  /\ UNCHANGED <<hierVars, paperVars, summaryVars, darkVars, mindmapJson,
                 hasContainer, outcome, console, svg, renders,
                 firstRender>>

NextRender ==
  \/ RenderMindmap
  \/ RenderAgain
  \/ \E k \in DOMAIN gNodes : Click(k)

SpecRender == InitRender /\ [][NextRender]_vars

(***************************************************************************)
(* SpecHier: one call of convertToHierarchy on any bounded graph.          *)
(***************************************************************************)
InitHier ==
  /\ graph \in Graphs
  /\ hierarchy = NoHierarchy
  /\ RenderIdle
  /\ PapersIdle
  /\ SummaryIdle
  /\ DarkIdle

Convert ==
  /\ hierarchy.status = "none"
  /\ hierarchy' = convertToHierarchy(graph)
  /\ UNCHANGED <<graph, renderVars, paperVars, summaryVars, darkVars>>

NextHier == Convert

SpecHier == InitHier /\ [][NextHier]_vars

\* loadPapers(page) up to its first await: the fetch is in flight.
StartCall(cs, page) == Append(cs, [page |-> page, pc |-> "fetch"])

\* document.getElementById("searchInput")?.value?.toLowerCase() || ""
SearchTerm(d, value) ==
  IF "searchInput" \in d THEN toLowerCase(value) ELSE <<>>

\* The cards loadPapers puts into the grid for a response.
Cards(data, d, value, sortV) ==
  LET term == SearchTerm(d, value)
      papers == IF term # <<>> THEN filter(data.papers, term) ELSE data.papers
      sorted == sort(IF "sortSelect" \in d THEN sortV ELSE "undefined", papers)
  IN  [j \in DOMAIN sorted |-> sorted[j].id]

\* A repaint that rebuilds the pagination only for a response newer than the
\* one the pagination was built from.
PaintPagerIfNewer(view, c, data, d, value, sortV) ==
  IF "papersGrid" \notin d THEN view
  ELSE [grid |-> [from |-> c, cards |-> Cards(data, d, value, sortV)],
        pager |-> IF "pagination" \in d /\ view.pager.from < c
                  THEN [from |-> c, buttons |-> data.total_pages,
                        disabled |-> data.page]
                  ELSE view.pager]

\* A repaint that a response older than the one shown does not get to do (a
\* request-generation guard).
PaintIfNewer(view, c, data, d, value, sortV) ==
  IF view.grid.from > c THEN view
  ELSE [grid |-> [from |-> c, cards |-> Cards(data, d, value, sortV)],
        pager |-> IF "pagination" \in d
                  THEN [from |-> c, buttons |-> data.total_pages,
                        disabled |-> data.page]
                  ELSE view.pager]

\* loadPapers after its awaits, for call c with response data: the grid is
\* emptied and filled, and the pagination, when there is one, rebuilt.
Paint(view, c, data, d, value, sortV) ==
  IF "papersGrid" \notin d THEN view
  ELSE [grid |-> [from |-> c, cards |-> Cards(data, d, value, sortV)],
        pager |-> IF "pagination" \in d
                  THEN [from |-> c, buttons |-> data.total_pages,
                        disabled |-> data.page]
                  ELSE view.pager]

(***************************************************************************)
(* SpecPapers: the page loads; then input, change and pagination clicks    *)
(* start loadPapers calls, whose fetches resolve in any order.  An event   *)
(* handler, and the part of loadPapers between two awaits, runs to its end *)
(* before anything else does.                                              *)
(***************************************************************************)
InitPapers ==
  /\ HierIdle
  /\ RenderIdle
  /\ SummaryIdle
  /\ DarkIdle
  /\ dom \in SUBSET ElementIds
  /\ searchValue = <<>>
  /\ sortValue = "date"
  /\ loaded = FALSE
  /\ initError = "none"
  /\ listeners = {}
  /\ detail = "unchecked"
  /\ calls = <<>>
  /\ grid = NoGrid
  /\ pager = NoPager
  /\ lastArrived = 0

\* The first DOMContentLoaded handler.  getElementById of a missing element
\* is null, and null.addEventListener throws a TypeError that ends the
\* handler.
DOMContentLoaded ==
  /\ ~loaded
  /\ loaded' = TRUE
  /\ calls' = IF "papersGrid" \in dom THEN StartCall(calls, 1) ELSE calls
  /\ LET threwAtInput == "papersGrid" \in dom /\ "searchInput" \notin dom
         threwAtChange == /\ "papersGrid" \in dom /\ "searchInput" \in dom
                          /\ "sortSelect" \notin dom
     IN  /\ initError' = IF threwAtInput \/ threwAtChange THEN "TypeError"
                         ELSE "none"
         /\ listeners' = IF "papersGrid" \notin dom \/ threwAtInput THEN {}
                         ELSE IF threwAtChange THEN {"input"}
                         ELSE {"input", "change"}
         /\ detail' = IF threwAtInput \/ threwAtChange THEN "unchecked"
                      ELSE IF "paperTitle" \in dom THEN "called"
                      ELSE "skipped"
  /\ UNCHANGED <<hierVars, renderVars, summaryVars, darkVars, dom, searchValue, sortValue, grid, pager,
                 lastArrived>>

\* The user edits the search box: the input listener calls loadPapers().
Input(value) ==
  /\ "input" \in listeners
  /\ Len(calls) < MaxCalls
  /\ searchValue' = value
  /\ calls' = StartCall(calls, 1)
  /\ UNCHANGED <<hierVars, renderVars, summaryVars, darkVars, dom, sortValue, loaded, initError,
                 listeners, detail, grid, pager, lastArrived>>

\* The user picks a sort order: the change listener calls loadPapers().
Change(value) ==
  /\ "change" \in listeners
  /\ Len(calls) < MaxCalls
  /\ sortValue' = value
  /\ calls' = StartCall(calls, 1)
  /\ UNCHANGED <<hierVars, renderVars, summaryVars, darkVars, dom, searchValue, loaded, initError,
                 listeners, detail, grid, pager, lastArrived>>

\* The user clicks pagination button p (a disabled button gets no click).
PageClick(p) ==
  /\ p \in 1 .. pager.buttons
  /\ p # pager.disabled
  /\ Len(calls) < MaxCalls
  /\ calls' = StartCall(calls, p)
  /\ UNCHANGED <<hierVars, renderVars, summaryVars, darkVars, dom, searchValue, sortValue, loaded,
                 initError, listeners, detail, grid, pager, lastArrived>>

\* await fetch(...) of call c resolves.
FetchResolves(c) ==
  /\ calls[c].pc = "fetch"
  /\ calls' = [calls EXCEPT ![c].pc = "json"]
  /\ UNCHANGED <<hierVars, renderVars, summaryVars, darkVars, dom, searchValue, sortValue, loaded,
                 initError, listeners, detail, grid, pager, lastArrived>>

\* await fetch(...) of call c rejects: the call ends, nothing is painted.
FetchRejects(c) ==
  /\ calls[c].pc = "fetch"
  /\ calls' = [calls EXCEPT ![c].pc = "rejected"]
  /\ UNCHANGED <<hierVars, renderVars, summaryVars, darkVars, dom, searchValue, sortValue, loaded,
                 initError, listeners, detail, grid, pager, lastArrived>>

\* await res.json() of call c resolves: its response has arrived and the
\* rest of loadPapers runs.
ResponseArrives(c) ==
  /\ calls[c].pc = "json"
  /\ calls' = [calls EXCEPT ![c].pc = "done"]
  /\ lastArrived' = c
  /\ LET view == Paint([grid |-> grid, pager |-> pager], c,
                       Response(calls[c].page), dom, searchValue, sortValue)
     IN  /\ grid' = view.grid
         /\ pager' = view.pager
  /\ UNCHANGED <<hierVars, renderVars, summaryVars, darkVars, dom, searchValue, sortValue, loaded,
                 initError, listeners, detail>>

NextPapers ==
  \/ DOMContentLoaded
  \/ \E value \in SearchValues : Input(value)
  \/ \E value \in SortValues : Change(value)
  \/ \E p \in 1 .. ServerPages : PageClick(p)
  \/ \E c \in DOMAIN calls : FetchResolves(c)
  \/ \E c \in DOMAIN calls : FetchRejects(c)
  \/ \E c \in DOMAIN calls : ResponseArrives(c)

SpecPapers == InitPapers /\ [][NextPapers]_vars

(***************************************************************************)
(* SpecSummary: one call of formatSummaries on any bounded text.           *)
(***************************************************************************)
InitSummary ==
  /\ HierIdle
  /\ RenderIdle
  /\ PapersIdle
  /\ DarkIdle
  /\ text \in Texts
  /\ type \in Types
  /\ summary = NotFormatted

Format ==
  /\ ~summary.done
  /\ summary' = [done |-> TRUE, value |-> formatSummaries(text, type)]
  /\ UNCHANGED <<hierVars, renderVars, paperVars, darkVars, text, type>>

NextSummary == Format

SpecSummary == InitSummary /\ [][NextSummary]_vars

(***************************************************************************)
(* SpecDark: the page loads of a browser profile whose localStorage starts *)
(* empty.  A page has the button #darkModeToggle or not; its body starts   *)
(* without the class dark-mode.                                            *)
(***************************************************************************)
InitDark ==
  /\ HierIdle
  /\ RenderIdle
  /\ PapersIdle
  /\ SummaryIdle
  /\ localStorage = NoItems
  /\ toggleBtn \in BOOLEAN
  /\ darkLoaded = FALSE
  /\ bodyClasses = {}
  /\ toggleText = "html"
  /\ pageLoads = 1
  /\ toggles = 0
  /\ lastToggle = NeverToggled

\* The browser leaves the page and loads one: a new document, the same
\* localStorage.
Navigate ==
  /\ darkLoaded
  /\ pageLoads < MaxPageLoads
  /\ pageLoads' = pageLoads + 1
  /\ toggleBtn' \in BOOLEAN
  /\ darkLoaded' = FALSE
  /\ bodyClasses' = {}
  /\ toggleText' = "html"
  /\ toggles' = 0
  /\ UNCHANGED <<hierVars, renderVars, paperVars, summaryVars, localStorage,
                 lastToggle>>

\* The second DOMContentLoaded handler.
DarkModeLoaded ==
  /\ ~darkLoaded
  /\ darkLoaded' = TRUE
  /\ IF toggleBtn /\ getItem(localStorage, "dark-mode") = [has |-> TRUE, value |-> "true"]
     THEN /\ bodyClasses' = bodyClasses \cup {"dark-mode"}
          /\ toggleText' = "Light Mode"
     ELSE UNCHANGED <<bodyClasses, toggleText>>
  /\ UNCHANGED <<hierVars, renderVars, paperVars, summaryVars, localStorage,
                 toggleBtn, pageLoads, toggles, lastToggle>>

\* The click listener of #darkModeToggle.
ToggleClick ==
  /\ darkLoaded
  /\ toggleBtn
  /\ toggles < MaxToggles
  /\ toggles' = toggles + 1
  /\ bodyClasses' = classToggle(bodyClasses, "dark-mode")
  /\ LET isDark == "dark-mode" \in bodyClasses'
     IN  /\ toggleText' = IF isDark THEN "Light Mode" ELSE "Dark Mode"
         /\ localStorage' = setItem(localStorage, "dark-mode", isDark)
         /\ lastToggle' = [made |-> TRUE, dark |-> isDark]
  /\ UNCHANGED <<hierVars, renderVars, paperVars, summaryVars, toggleBtn,
                 darkLoaded, pageLoads>>

NextDark == Navigate \/ DarkModeLoaded \/ ToggleClick

SpecDark == InitDark /\ [][NextDark]_vars

(***************************************************************************)
(* Claims about convertToHierarchy (checked under SpecHier).               *)
(***************************************************************************)
DeclaredIds == {graph.nodes[j].id : j \in DOMAIN graph.nodes}

IsTarget(k) == \E j \in DOMAIN graph.edges : graph.edges[j].to = k

Converted == hierarchy.status # "none"

\* C1: for a graph with at least one declared node the call returns the tree
\* node built for the first declared node whose id is the `to` of no edge, and
\* the tree node of the first declared node when every declared node is the
\* target of some edge.
C1_RootSelection ==
  (Converted /\ Len(graph.nodes) >= 1) =>
    LET nodes == graph.nodes
        free == {j \in DOMAIN nodes : ~IsTarget(nodes[j].id)}
        first == IF free # {} THEN nodes[Min(free)] ELSE nodes[1]
    IN  /\ hierarchy.status = "ok"
        /\ hierarchy.root = first.id
        /\ hierarchy.objs[hierarchy.root].name = first.label

\* C1 witness: the first declared node has an incoming edge and a later node,
\* which has none, was returned.
C1_Witness ==
  /\ hierarchy.status = "ok"
  /\ Len(graph.nodes) >= 2
  /\ IsTarget(graph.nodes[1].id)
  /\ hierarchy.root # graph.nodes[1].id

\* C1 witness of the fallback: every declared node has an incoming edge and
\* the first declared node was returned.
C1_FallbackWitness ==
  /\ hierarchy.status = "ok"
  /\ Len(graph.nodes) >= 2
  /\ \A k \in DeclaredIds : IsTarget(k)
  /\ hierarchy.root = graph.nodes[1].id

\* C2: the children list of the tree node of every declared node n is the
\* sequence of the targets of the edges that leave n and have both endpoints
\* declared, in edge declaration order.
C2_ChildrenLists ==
  Converted =>
    \A j \in DOMAIN graph.nodes :
      LET n == graph.nodes[j].id
          out == SelectSeq(graph.edges,
                           LAMBDA e : e.from = n /\ e.to \in DeclaredIds)
      IN  /\ hierarchy.status = "ok"
          /\ hierarchy.objs[n].children = [m \in DOMAIN out |-> out[m].to]

\* C2 witness: a chain a -> b -> c was converted to a with sole child b, b
\* with sole child c, c without children.
C2_Witness ==
  /\ hierarchy.status = "ok"
  /\ \E a, b, c \in DeclaredIds :
       /\ a # b /\ b # c /\ a # c
       /\ hierarchy.root = a
       /\ hierarchy.objs[a].children = <<b>>
       /\ hierarchy.objs[b].children = <<c>>
       /\ hierarchy.objs[c].children = <<>>

\* C2 witness of the order: a node with two different children, in the order
\* of their edges.
C2_OrderWitness ==
  /\ hierarchy.status = "ok"
  /\ Len(graph.edges) = 2
  /\ graph.edges[1].to # graph.edges[2].to
  /\ hierarchy.objs[hierarchy.root].children
       = <<graph.edges[1].to, graph.edges[2].to>>

\* How many times k occurs in the children lists of the nodes of S.
Occurrences(objs, S, k) ==
  Cardinality(UNION {{<<p, m>> : m \in {x \in DOMAIN objs[p].children :
                                           objs[p].children[x] = k}} : p \in S})

\* C3: for a graph with at least one declared node the returned structure is
\* one rooted tree: every tree node reachable from the returned root, other
\* than the root, occurs exactly once among the children lists, and no node
\* is its own descendant.
C3_OneRootedTree ==
  (Converted /\ Len(graph.nodes) >= 1) =>
    LET objs == hierarchy.objs
        reach == Closure(objs, {hierarchy.root})
    IN  /\ hierarchy.status = "ok"
        /\ \A k \in reach \ {hierarchy.root} : Occurrences(objs, reach, k) = 1
        /\ \A k \in reach : k \notin Descendants(objs, k)

\* The graph without the edges that have an undeclared endpoint.
KnownEdgesOnly(g) ==
  LET declared == {g.nodes[j].id : j \in DOMAIN g.nodes}
  IN  [nodes |-> g.nodes,
       edges |-> SelectSeq(g.edges,
                           LAMBDA e : e.from \in declared /\ e.to \in declared)]

\* C4: for a graph with at least one declared node the call raises no error
\* and returns the hierarchy (root and all children lists) it returns for the
\* same graph without the edges whose `from` or `to` is not a declared id.
C4_UnknownEndpointsIgnored ==
  (Converted /\ Len(graph.nodes) >= 1) =>
    /\ hierarchy.status = "ok"
    /\ hierarchy = convertToHierarchy(KnownEdgesOnly(graph))

(***************************************************************************)
(* Claims about the renderer (checked under SpecRender).                   *)
(***************************************************************************)
Range(s) == {s[j] : j \in DOMAIN s}

\* The visible node set: what root.descendants() returns.
Visible(t) == Range(descendants(t))

\* The render nodes the hierarchy puts directly below p.
KidPaths(t, p) ==
  {q \in DOMAIN t : Len(q) = Len(p) + 1 /\ SubSeq(q, 1, Len(p)) = p}

\* The nodes of ds and what is visible below them.
VisibleFrom(t, ds) == Range(BreadthFirst(t, ds, <<>>))

Drawn == outcome \in {"rendered", "ReferenceError"}

\* What C5 says of the state after the initial render.
InitiallyCollapsed ==
  /\ \A p \in DOMAIN root \ {RootPath} :
       /\ ~root[p].children.has
       /\ KidPaths(root, p) # {} =>
            /\ root[p]._children.has
            /\ Range(root[p]._children.items) = KidPaths(root, p)
  /\ Visible(root) = {RootPath} \cup KidPaths(root, RootPath)
  /\ outcome = "rendered" =>
       /\ Range(gNodes) = Visible(root)
       /\ Len(gNodes) = Cardinality(Visible(root))

\* C5: after the initial render every node below the root is collapsed (its
\* children, if any, are in the hidden slot), and the visible node set, laid
\* out and drawn, is the root with the root's immediate children: no
\* grandchild of the root is visible.
C5_InitialCollapse ==
  [][(outcome = "none" /\ outcome' \in {"rendered", "ReferenceError"})
       => InitiallyCollapsed']_vars

\* C5 witness: a tree of three levels is drawn with its grandchildren hidden.
C5_Witness ==
  /\ outcome = "rendered"
  /\ \E p \in DOMAIN root : Len(p) = 2
  /\ InitiallyCollapsed

\* A step of the diagram a call of renderMindmap drew: a click.
Clicked == outcome = "rendered" /\ renders' = renders

\* A step in which node d goes from hidden children to visible children.
Expanding(d) ==
  /\ Clicked
  /\ d \in DOMAIN root /\ d \in DOMAIN root'
  /\ root[d]._children.has /\ ~root[d].children.has
  /\ root'[d].children.has

\* A step in which node d goes from visible children to hidden children.
Collapsing(d) ==
  /\ Clicked
  /\ d \in DOMAIN root /\ d \in DOMAIN root'
  /\ root[d].children.has
  /\ ~root'[d].children.has

\* C6, as claimed: a click on a node with hidden children makes exactly that
\* node's immediate children newly visible, no deeper descendant, and a click
\* on a node with visible children hides its subtree.
C6_OnlyImmediateChildren ==
  [][\A d \in DOMAIN root :
       /\ Expanding(d) =>
            Visible(root') \ Visible(root) = Range(root[d]._children.items)
       /\ Collapsing(d) =>
            Visible(root') =
              Visible(root) \ VisibleFrom(root, root[d].children.items)]_vars

\* C6, amended: a click on a node with hidden children moves exactly its
\* immediate children into its visible slot; the nodes that become visible
\* are these children and every deeper descendant reached from them through
\* visible slots, that is, the part of the subtree earlier clicks left
\* expanded; a click on a node with visible children hides its subtree.
C6_RestoresSubtree ==
  [][\A d \in DOMAIN root :
       /\ Expanding(d) =>
            /\ root'[d].children = root[d]._children
            /\ ~root'[d]._children.has
            /\ Visible(root) \cap VisibleFrom(root, root[d]._children.items) = {}
            /\ Visible(root') =
                 Visible(root) \cup VisibleFrom(root, root[d]._children.items)
       /\ Collapsing(d) =>
            /\ root'[d]._children = root[d].children
            /\ Visible(root') =
                 Visible(root) \ VisibleFrom(root, root[d].children.items)]_vars

\* C6 witness: a node below the root has been expanded by a click and a
\* deeper descendant of it is visible as well.
C6_Witness ==
  /\ outcome = "rendered"
  /\ \E d \in Visible(root) \ {RootPath} :
       /\ root[d].children.has
       /\ \E c \in Range(root[d].children.items) :
            /\ root[c].children.has
            /\ Range(root[c].children.items) \subseteq Visible(root)

\* C7: after the initial render and any sequence of clicks no render node has
\* both child-list slots populated; a node with children in the hierarchy
\* holds all of them in exactly one slot, a node without has both empty.
C7_OneSlotPopulated ==
  Drawn =>
    \A p \in DOMAIN root :
      LET c == root[p].children
          h == root[p]._children
          kids == KidPaths(root, p)
      IN  /\ ~(c.has /\ h.has)
          /\ kids # {} =>
               /\ c.has # h.has
               /\ Range(c.items \o h.items) = kids
               /\ Len(c.items \o h.items) = Cardinality(kids)
          /\ kids = {} => ~c.has /\ ~h.has

\* C7 witness: after clicks, one node holds its children in the visible slot
\* and another, below the root, holds them in the hidden slot while the root
\* itself has been collapsed and expanded again.
C7_Witness ==
  /\ outcome = "rendered"
  /\ \E d, e \in DOMAIN root \ {RootPath} :
       /\ root[d].children.has
       /\ root[e]._children.has
  /\ root[RootPath].children.has

\* The inputs C8 names: no payload, a string that is not JSON, a graph whose
\* node list is empty.
AbsentOrMalformed(m) ==
  \/ Absent(m)
  \/ m.kind = "invalidJSON"
  \/ m.shape = "graph" /\ Len(m.graph.nodes) = 0

\* C8: on an absent payload, a string that is not JSON or a graph payload
\* with an empty node list, renderMindmap returns normally and renders
\* nothing.
C8_NoOpOnBadInput ==
  (outcome # "none" /\ AbsentOrMalformed(mindmapJson)) =>
    /\ outcome = "returned"
    /\ svg = 0
    /\ gNodes = <<>>
    /\ gLinks = <<>>

(***************************************************************************)
(* Claims about the paper list view and the page-load hook (checked under  *)
(* SpecPapers).                                                            *)
(***************************************************************************)
PaperIds(data) == {data.papers[j].id : j \in DOMAIN data.papers}

\* C9: every response repaints the view when it arrives, whatever else is
\* in flight: the grid and the pagination always show the response that
\* arrived last (so also once all calls have completed), whichever page was
\* requested last.
C9_LastArrivalShown ==
  ("papersGrid" \in dom /\ lastArrived # 0) =>
    LET data == Response(calls[lastArrived].page)
    IN  /\ grid.from = lastArrived
        /\ Range(grid.cards) \subseteq PaperIds(data)
        /\ "pagination" \in dom =>
             /\ pager.from = lastArrived
             /\ pager.buttons = data.total_pages
             /\ pager.disabled = data.page

\* C9 witness: all calls have completed; two were in flight at once, and the
\* one requested earlier arrived last, so the view shows its page and not
\* the page requested last.
C9_Witness ==
  /\ "pagination" \in dom
  /\ Len(calls) >= 2
  /\ \A c \in DOMAIN calls : calls[c].pc = "done"
  /\ lastArrived < Len(calls)
  /\ calls[lastArrived].page # calls[Len(calls)].page
  /\ grid.from = lastArrived
  /\ pager.disabled = calls[lastArrived].page

\* C10: with #papersGrid present and #searchInput absent the page-load hook
\* and loadPapers raise no error, and every step that does not need the
\* search box still happens: the papers are loaded, unfiltered, the sort
\* listener is attached, the paper-detail check runs.
C10_MissingSearchBoxSkipped ==
  (loaded /\ "papersGrid" \in dom /\ "searchInput" \notin dom) =>
    /\ initError = "none"
    /\ Len(calls) >= 1
    /\ lastArrived # 0 => Len(grid.cards) = PapersPerPage
    /\ "sortSelect" \in dom => "change" \in listeners
    /\ detail # "unchecked"

\* Whether title contains term, case-insensitively.
ContainsIgnoringCase(title, term) ==
  \E k \in 0 .. Len(title) - Len(term) :
    \A m \in 1 .. Len(term) : LowerChar(title[k + m]) = LowerChar(term[m])

\* The paper of a response with the given id.
PaperOf(data, id) ==
  data.papers[CHOOSE j \in DOMAIN data.papers : data.papers[j].id = id]

\* What C11 says of the grid painted from data under a search value and a
\* sort value (the search box or the sort select may be missing).
GridShows(cards, data, term, by) ==
  /\ Range(cards) =
       {data.papers[j].id : j \in {x \in DOMAIN data.papers :
                                      ContainsIgnoringCase(data.papers[x].title, term)}}
  /\ \A a, b \in DOMAIN cards : cards[a] = cards[b] => a = b
  /\ \A a, b \in DOMAIN cards :
       a < b =>
         IF by = "title"
         THEN ~localeCompareLess(PaperOf(data, cards[b]).title,
                                 PaperOf(data, cards[a]).title)
         ELSE PaperOf(data, cards[a]).published_date
                >= PaperOf(data, cards[b]).published_date

\* C11: when a loadPapers call completes, the cards of the grid are exactly
\* the papers of the response for its page whose title contains the search
\* term active then (case-insensitively; all papers for an empty term), one
\* card per paper, by title ascending when the sort is 'title' and by
\* published date descending otherwise.
C11_GridOfResponse ==
  [][\A c \in DOMAIN calls :
       (c \in DOMAIN calls' /\ calls[c].pc = "json" /\ calls'[c].pc = "done") =>
         GridShows(grid'.cards, Response(calls[c].page),
                   IF "searchInput" \in dom THEN searchValue ELSE <<>>,
                   IF "sortSelect" \in dom THEN sortValue ELSE "date")]_vars

\* C11 witness: page 2 of 3 has been painted under a search term that
\* removed one of its papers.
C11_Witness ==
  /\ grid.from = Len(calls)
  /\ Len(calls) >= 1
  /\ calls[grid.from].pc = "done"
  /\ calls[grid.from].page = 2
  /\ searchValue # <<>>
  /\ Len(grid.cards) >= 1
  /\ Len(grid.cards) < PapersPerPage

(***************************************************************************)
(* Further claims about the renderer (checked under SpecRender).           *)
(***************************************************************************)
\* How many g.node elements are bound to render node p.
TimesDrawn(p) == Cardinality({k \in DOMAIN gNodes : gNodes[k] = p})

\* After an update every visible node has an id and one g.node element, and
\* no two render nodes share an id.
IdentifiedAndDrawnOnce ==
  /\ \A p \in Visible(root) : root[p].id # 0 /\ TimesDrawn(p) = 1
  /\ \A p, q \in DOMAIN root :
       (p # q /\ root[p].id # 0) => root[p].id # root[q].id

\* An id, once given, is the node's id after every later step.
IdsKept ==
  \A p \in DOMAIN root :
    root[p].id # 0 => (p \in DOMAIN root' /\ root'[p].id = root[p].id)

\* C12: within one render every visible node is drawn exactly once and has
\* a stable identity: it is given an id by the first update in which it is
\* visible, later updates never change that id, and no two nodes ever have
\* the same id, after any sequence of clicks.
C12_StableIdentity ==
  [][/\ Drawn' => IdentifiedAndDrawnOnce'
     /\ renders' = renders => IdsKept]_vars

\* What of C12 holds on a page that declares the counter i.
C12_WithDeclaredCounter ==
  [][i.declared =>
       /\ Drawn' => IdentifiedAndDrawnOnce'
       /\ renders' = renders => IdsKept]_vars

\* C13: after every update the drawn link paths are exactly the visible
\* parent-child relationships: one path for each visible node but the root,
\* and no path for a child that has left visibility.
C13_LinksAreVisibleRelations ==
  Drawn =>
    /\ Range(gLinks) = Visible(root) \ {RootPath}
    /\ \A a, b \in DOMAIN gLinks : gLinks[a] = gLinks[b] => a = b

\* What of C13 holds: every visible relationship has exactly one path (and
\* paths of hidden children may remain).
C13_VisibleRelationsHavePaths ==
  Drawn =>
    /\ Visible(root) \ {RootPath} \subseteq Range(gLinks)
    /\ \A a, b \in DOMAIN gLinks : gLinks[a] = gLinks[b] => a = b

\* A later call of renderMindmap: a step that makes one more call.
Rerendered == renders >= 1 /\ renders' = renders + 1

IdsOf(t) == {t[p].id : p \in {q \in DOMAIN t : t[q].id # 0}}

\* The visible nodes of the hierarchy t, none before a hierarchy is built.
Shown(t) == IF t = <<>> THEN {} ELSE Visible(t)

\* C14: re-rendering is idempotent: a second call of renderMindmap with the
\* same unchanged tree data leaves a single diagram whose visible nodes and
\* their ids are those the first call left, with no node drawn twice.
C14_RerenderIdempotent ==
  [][Rerendered =>
       /\ svg' <= 1
       /\ Shown(root') = Shown(firstRender.root)
       /\ \A p \in Shown(root') : root'[p].id = firstRender.root[p].id
       /\ \A a, b \in DOMAIN gNodes' : gNodes'[a] = gNodes'[b] => a = b]_vars

\* C14 as the code has it: a later call leaves at most one diagram, which
\* ends as the first call's did, with the visible nodes and the drawn nodes
\* of the first call, none drawn twice; the ids are not the first call's:
\* every id the call gives is one the counter had not reached before.
C14_RerenderFreshIds ==
  [][Rerendered =>
       /\ svg' <= 1
       /\ outcome' = outcome
       /\ Shown(root') = Shown(firstRender.root)
       /\ gNodes' = firstRender.gNodes
       /\ \A a, b \in DOMAIN gNodes' : gNodes'[a] = gNodes'[b] => a = b
       /\ outcome' = "rendered" =>
            /\ \A p \in Shown(root') : root'[p].id > i.value
            /\ IdsOf(root') \cap IdsOf(firstRender.root) = {}]_vars

\* C14 witness: a tree was rendered, clicked open, and rendered again.
C14_Witness ==
  /\ renders = 2
  /\ outcome = "rendered"
  /\ Len(gNodes) >= 2
  /\ gNodes = firstRender.gNodes
  /\ i.value > 2 * Len(gNodes)

\* C16: a click on a node d changes only d's own two child-list slots: the
\* visible and the hidden slot of every other node are as before the click.
C16_ClickFrame ==
  [][(Clicked /\ root' # root) =>
       \E d \in Range(gNodes) :
         \A p \in DOMAIN root \ {d} :
           /\ p \in DOMAIN root'
           /\ root'[p].children = root[p].children
           /\ root'[p]._children = root[p]._children]_vars

\* C16 witness: the root was clicked shut while a child of it stays expanded.
C16_Witness ==
  /\ outcome = "rendered"
  /\ root[RootPath]._children.has
  /\ \E p \in DOMAIN root : p # RootPath /\ root[p].children.has
                             /\ root[p].children.items # <<>>

(***************************************************************************)
(* Further claims about the paper list view (checked under SpecPapers).    *)
(***************************************************************************)
\* C17: each repaint of loadPapers is atomic: in every state between two
\* handler runs of a page that has #papersGrid and #pagination, the cards of
\* the grid and the pagination buttons (as many as total_pages, the one of
\* the reported page disabled) come from one and the same response.
C17_AtomicRepaint ==
  ("papersGrid" \in dom /\ "pagination" \in dom) =>
    /\ grid.from = pager.from
    /\ grid.from # 0 =>
         LET data == Response(calls[grid.from].page)
         IN  /\ calls[grid.from].pc = "done"
             /\ Range(grid.cards) \subseteq PaperIds(data)
             /\ pager.buttons = data.total_pages
             /\ pager.disabled = data.page

\* C17 witness: a response repainted the view after the response of a call
\* made later, for another page, had repainted it.
C17_Witness ==
  /\ "papersGrid" \in dom
  /\ "pagination" \in dom
  /\ grid.from >= 1
  /\ pager.from = grid.from
  /\ grid.cards # <<>>
  /\ \E c \in DOMAIN calls :
       /\ c > grid.from
       /\ calls[c].pc = "done"
       /\ calls[c].page # calls[grid.from].page

(***************************************************************************)
(* Claims about formatSummaries (checked under SpecSummary).               *)
(***************************************************************************)
\* C15: for a blob 'Here are the summaries based on the provided abstract:
\* Short Summary: S Long Summary: L', type "short" returns exactly
\* '<strong>Short Summary:</strong> ' and S trimmed, type "long" returns
\* exactly ' ' and L trimmed; neither holds the preamble, a section label or
\* the colon of the label.
C15_BlobSections ==
  summary.done =>
    \A S, L \in Parts :
      text = Arr(Blob(S, L)) =>
        /\ type = "short" => summary.value = <<Bold, " ">> \o trim(S)
        /\ type = "long" => summary.value = <<" ">> \o trim(L)
        /\ type \in {"short", "long"} =>
             Range(summary.value) \cap {Preamble, ShortLabel, LongLabel, ":"} = {}

\* What the code returns for the blobs of C15: the colon of the label stays
\* in front of the summary, which is trimmed at its end only.
C15_LabelColonKept ==
  summary.done =>
    \A S, L \in Parts :
      text = Arr(Blob(S, L)) =>
        /\ type = "short" => summary.value = <<Bold, " ">> \o trim(<<":", " ">> \o S)
        /\ type = "long" => summary.value = <<" ">> \o trim(<<":", " ">> \o L)

(***************************************************************************)
(* Claims about dark mode (checked under SpecDark).                        *)
(***************************************************************************)
IsDark == "dark-mode" \in bodyClasses

StoredTrue == getItem(localStorage, "dark-mode") = [has |-> TRUE, value |-> "true"]

\* C18: after any sequence of clicks on the toggle the stored "dark-mode"
\* value is "true" exactly when the body is in dark mode; and once a page
\* has loaded it is in dark mode exactly when the last click of any session
\* left dark mode on (light when no click was ever made).
C18_PreferenceRoundTrip ==
  darkLoaded =>
    /\ StoredTrue <=> IsDark
    /\ IsDark <=> lastToggle.dark

\* What of C18 holds: the same, on the pages that have #darkModeToggle.
C18_OnPagesWithToggle ==
  (darkLoaded /\ toggleBtn) =>
    /\ StoredTrue <=> IsDark
    /\ IsDark <=> lastToggle.dark

====
